---------------------------- MODULE Spec2Model ----------------------------
(***************************************************************************)
(* A model of the Huffman codec of huffman-coding-rust.                    *)
(*                                                                         *)
(* Three programs share the state:                                         *)
(*   prog = "encoder"  src/encoder.rs main, with the library huffman.rs    *)
(*   prog = "huffman"  the library functions of huffman.rs applied to a    *)
(*                     frequency table given directly (build_huffman_tree  *)
(*                     is pub and accepts any FreqTable), followed by      *)
(*                     encoder.rs encode_frequencies                       *)
(*   prog = "main"     src/main.rs main: encoder and decoder in one        *)
(*                                                                         *)
(* u64 and u128 values are little-endian tuples of 16-bit limbs, so that   *)
(* u64::MAX / 2 and the weights near it are the program's own values.      *)
(* A HashMap is a function; each iteration over it yields its entries in   *)
(* an arbitrary order, chosen anew by the action that iterates.            *)
(* Option<T> is a sequence: <<>> is None, <<x>> is Some(x).                *)
(***************************************************************************)
EXTENDS Integers, Sequences, FiniteSets, TLC

(***************************************************************************)
(* Bounds of the model.                                                    *)
(***************************************************************************)
\* longest input buffer of encoder.rs main and main.rs main
MaxLen == 4
\* largest small weight of a frequency table given to the library directly
MaxCount == 3

\* byte values the input buffers are drawn from (0 is the padding byte)
InputBytes == {0, 65, 66}
\* symbols of the frequency tables given to the library directly
TableSymbols == {<<65>>, <<66>>, <<67>>, <<68>>}

(***************************************************************************)
(* Fixed-width unsigned integers.                                          *)
(***************************************************************************)
LimbBits == 2 * 8
LimbBase == 2 ^ LimbBits
U64Limbs == 64 \div LimbBits
U128Limbs == 128 \div LimbBits

\* a function on 1..n as a tuple whose elements are computed once
AsTuple(f) == f \o << >>

\* n (below 2^31) as a k-limb value
FromNat(n, k) ==
  AsTuple([i \in 1..k |-> IF i = 1 THEN n % LimbBase
                          ELSE IF i = 2 THEN (n \div LimbBase) % LimbBase
                          ELSE 0])

\* 2^e as a k-limb value
Pow2(e, k) ==
  AsTuple([i \in 1..k |-> IF i = (e \div LimbBits) + 1 THEN 2 ^ (e % LimbBits) ELSE 0])

U64(n) == FromNat(n, U64Limbs)
U64_MAX == AsTuple([i \in 1..U64Limbs |-> LimbBase - 1])

\* `x as u128`
AsU128(x) == AsTuple([i \in 1..U128Limbs |-> IF i <= Len(x) THEN x[i] ELSE 0])

RECURSIVE CmpFrom(_, _, _)
CmpFrom(a, b, i) ==
  IF i = 0 THEN "Equal"
  ELSE IF a[i] < b[i] THEN "Less"
  ELSE IF a[i] > b[i] THEN "Greater"
  ELSE CmpFrom(a, b, i - 1)

\* Ord::cmp of two unsigned integers of the same width
CmpUInt(a, b) == CmpFrom(a, b, Len(a))

RECURSIVE CarryInto(_, _, _)
CarryInto(a, b, i) ==
  IF i = 1 THEN 0
  ELSE (a[i - 1] + b[i - 1] + CarryInto(a, b, i - 1)) \div LimbBase

\* a + b, wrapping at the width of a (the carry out of the top limb is lost)
WrappingAdd(a, b) ==
  AsTuple([i \in 1..Len(a) |-> (a[i] + b[i] + CarryInto(a, b, i)) % LimbBase])

\* whether a + b leaves the width of a
AddOverflows(a, b) == CarryInto(a, b, Len(a) + 1) > 0

\* a >> 1
Shr1(a) ==
  AsTuple([i \in 1..Len(a) |->
     (a[i] \div 2)
       + (IF i < Len(a) THEN (a[i + 1] % 2) * (LimbBase \div 2) ELSE 0)])

\* a.max(1)
Max1(a) == IF CmpUInt(a, FromNat(1, Len(a))) = "Less" THEN FromNat(1, Len(a)) ELSE a

\* to_be_bytes of a limb value
to_be_bytes(a) ==
  AsTuple([j \in 1..(2 * Len(a)) |->
     LET limb == a[Len(a) - ((j - 1) \div 2)]
     IN IF j % 2 = 1 THEN limb \div 256 ELSE limb % 256])

\* (n as u32).to_be_bytes(), n below 2^31
u32_to_be_bytes(n) ==
  << (n \div (2 ^ 24)) % 256, (n \div (2 ^ 16)) % 256, (n \div 256) % 256, n % 256 >>

(***************************************************************************)
(* Sequences, orderings, HashMap.                                          *)
(***************************************************************************)
None == << >>
Some(x) == << x >>

Swap(s, i, j) == [s EXCEPT ![i] = s[j], ![j] = s[i]]

\* Ordering::then
Then(o1, o2) == IF o1 # "Equal" THEN o1 ELSE o2

CmpNat(a, b) == IF a < b THEN "Less" ELSE IF a > b THEN "Greater" ELSE "Equal"

RECURSIVE CmpBytes(_, _)
\* Ord::cmp of Vec<u8>: lexicographic
CmpBytes(a, b) ==
  IF a = << >> /\ b = << >> THEN "Equal"
  ELSE IF a = << >> THEN "Less"
  ELSE IF b = << >> THEN "Greater"
  ELSE IF Head(a) # Head(b) THEN CmpNat(Head(a), Head(b))
  ELSE CmpBytes(Tail(a), Tail(b))

IsPrefix(p, s) == Len(p) <= Len(s) /\ SubSeq(s, 1, Len(p)) = p

\* the orders in which the elements of S can be listed
Orders(S) ==
  { p \in [1..Cardinality(S) -> S] : \A i, j \in 1..Cardinality(S) : p[i] = p[j] => i = j }

\* what `map.iter()` can yield: the entries (key, value), in any order
Iterations(map) ==
  { AsTuple([i \in 1..Cardinality(DOMAIN map) |-> << p[i], map[p[i]] >>]) : p \in Orders(DOMAIN map) }

EmptyMap == << >>

\* map.insert(k, v)
Insert(map, k, v) == (k :> v) @@ map

\* *map.entry(k).or_insert(0) += 1
Increment(map, k) ==
  Insert(map, k, IF k \in DOMAIN map THEN WrappingAdd(map[k], U64(1)) ELSE U64(1))

(***************************************************************************)
(* huffman.rs: Node, HeapNode and their orders.                            *)
(***************************************************************************)
Leaf(symbol, f) == [kind |-> "Leaf", symbol |-> symbol, freq |-> f]
Internal(f, left, right) == [kind |-> "Internal", freq |-> f, left |-> left, right |-> right]
HeapNode(f, node) == [freq |-> f, node |-> node]

\* impl Ord for Node
Node_cmp(self, other) ==
  LET freq_cmp == CmpUInt(other.freq, self.freq)
  IN IF freq_cmp # "Equal" THEN freq_cmp
     ELSE IF self.kind = "Leaf" /\ other.kind = "Leaf" THEN CmpBytes(self.symbol, other.symbol)
     ELSE IF self.kind = "Leaf" /\ other.kind = "Internal" THEN "Less"
     ELSE IF self.kind = "Internal" /\ other.kind = "Leaf" THEN "Greater"
     ELSE "Equal"

\* impl Ord for HeapNode
HeapNode_cmp_reversed(self, other) == CmpUInt(self.freq, other.freq)
HeapNode_cmp(self, other) == CmpUInt(other.freq, self.freq)


(***************************************************************************)
(* main.rs: Node, HeapNode and their orders (a symbol is one byte).        *)
(***************************************************************************)
main_Leaf(byte, f) == [kind |-> "Leaf", byte |-> byte, freq |-> f]

\* impl Ord for Node
main_Node_cmp_ascending(self, other) ==
  LET freq_cmp == CmpUInt(other.freq, self.freq)
  IN IF freq_cmp # "Equal" THEN freq_cmp
     ELSE IF self.kind = "Leaf" /\ other.kind = "Leaf" THEN CmpNat(other.byte, self.byte)
     ELSE IF self.kind = "Leaf" /\ other.kind = "Internal" THEN "Less"
     ELSE IF self.kind = "Internal" /\ other.kind = "Leaf" THEN "Greater"
     ELSE "Equal"
main_Node_cmp(self, other) ==
  LET freq_cmp == CmpUInt(other.freq, self.freq)
  IN IF freq_cmp # "Equal" THEN freq_cmp
     ELSE IF self.kind = "Leaf" /\ other.kind = "Leaf" THEN CmpNat(self.byte, other.byte)
     ELSE IF self.kind = "Leaf" /\ other.kind = "Internal" THEN "Less"
     ELSE IF self.kind = "Internal" /\ other.kind = "Leaf" THEN "Greater"
     ELSE "Equal"

\* impl Ord for HeapNode
main_HeapNode_cmp(self, other) == CmpUInt(other.freq, self.freq)

(***************************************************************************)
(* decoder.rs: Node, HeapNode and its order (a symbol is one byte).        *)
(***************************************************************************)
decoder_Leaf(byte, f) == [kind |-> "Leaf", byte |-> byte, freq |-> f]

\* impl Ord for HeapNode
decoder_HeapNode_cmp(self, other) == CmpUInt(other.freq, self.freq)

(***************************************************************************)
(* std::collections::BinaryHeap as the code uses it: a max-heap stored in  *)
(* a vector, ordered by the element type's Ord (ord names the type).       *)
(* Positions are 0-based as in the library; element pos is h[pos + 1].     *)
(***************************************************************************)
Cmp(ord, a, b) ==
  CASE ord = "HeapNode" -> HeapNode_cmp(a, b)
    [] ord = "Node" -> Node_cmp(a, b)
    [] ord = "main_HeapNode" -> main_HeapNode_cmp(a, b)
    [] ord = "main_Node" -> main_Node_cmp(a, b)
    [] ord = "decoder_HeapNode" -> decoder_HeapNode_cmp(a, b)

\* a <= b of PartialOrd
Le(ord, a, b) == Cmp(ord, a, b) \in {"Less", "Equal"}

RECURSIVE sift_up(_, _, _, _)
sift_up(ord, h, start, pos) ==
  IF pos > start
  THEN LET parent == (pos - 1) \div 2
       IN IF Le(ord, h[pos + 1], h[parent + 1]) THEN h
          ELSE sift_up(ord, Swap(h, pos + 1, parent + 1), start, parent)
  ELSE h

RECURSIVE sift_down_loop(_, _, _)
\* the loop of sift_down_to_bottom and the step after it: <<heap, hole position>>
sift_down_loop(ord, h, pos) ==
  LET end == Len(h)
      child == 2 * pos + 1
  IN IF end >= 2 /\ child <= end - 2
     THEN LET c == child + (IF Le(ord, h[child + 1], h[child + 2]) THEN 1 ELSE 0)
          IN sift_down_loop(ord, Swap(h, pos + 1, c + 1), c)
     ELSE IF child = end - 1 THEN << Swap(h, pos + 1, child + 1), child >>
     ELSE << h, pos >>

sift_down_to_bottom(ord, h, start) ==
  LET r == sift_down_loop(ord, h, start)
  IN sift_up(ord, r[1], start, r[2])

\* heap.push(item)
push(ord, h, item) == sift_up(ord, Append(h, item), 0, Len(h))

\* heap.pop(): <<the popped item as an Option, the heap left>>
pop(ord, h) ==
  IF h = << >> THEN << None, h >>
  ELSE LET last == h[Len(h)]
           rest == SubSeq(h, 1, Len(h) - 1)
       IN IF rest = << >> THEN << Some(last), rest >>
          ELSE << Some(rest[1]), sift_down_to_bottom(ord, [rest EXCEPT ![1] = last], 0) >>

RECURSIVE push_all(_, _, _)
\* the elements of items pushed one after the other (the first half of
\* them, then the second)
push_all(ord, h, items) ==
  IF items = << >> THEN h
  ELSE IF Len(items) = 1 THEN push(ord, h, items[1])
  ELSE LET half == Len(items) \div 2
       IN CHOOSE pushed \in { push_all(ord, first, SubSeq(items, half + 1, Len(items))) :
                               first \in { push_all(ord, h, SubSeq(items, 1, half)) } } : TRUE

(***************************************************************************)
(* huffman.rs: build_huffman_tree and build_code_table.                    *)
(***************************************************************************)
\* let limit = u64::MAX / 2
limit == Shr1(U64_MAX)

RECURSIVE total_weight(_)
\* the u128 sum of the weights of freq_vec, each partial sum computed once
total_weight(freq_vec) ==
  IF freq_vec = << >> THEN FromNat(0, U128Limbs)
  ELSE CHOOSE sum \in { WrappingAdd(AsU128(Head(freq_vec)[2]), rest) :
                          rest \in { total_weight(Tail(freq_vec)) } } : TRUE

\* one pass of the scaling loop: *freq = (*freq >> 1).max(1)
not_halved(freq_vec) == freq_vec
halve(freq_vec) ==
  AsTuple([i \in 1..Len(freq_vec) |-> << freq_vec[i][1], Max1(Shr1(freq_vec[i][2])) >>])

\* the loop left out: the weights as collected
not_normalized(freq_vec) == freq_vec

RECURSIVE normalize(_)
\* if total_weight > limit { while total_weight > limit { ... } }
normalize(freq_vec) ==
  IF CmpUInt(total_weight(freq_vec), AsU128(limit)) = "Greater"
  THEN normalize(halve(freq_vec))
  ELSE freq_vec

\* the comparator of freq_vec.sort_by: a.1.cmp(&b.1).then(b.0.cmp(a.0))
freq_vec_cmp(a, b) == Then(CmpUInt(a[2], b[2]), CmpBytes(b[1], a[1]))

RECURSIVE sort_insert(_, _)
sort_insert(sorted, e) ==
  IF sorted = << >> THEN << e >>
  ELSE IF freq_vec_cmp(e, Head(sorted)) = "Less" THEN << e >> \o sorted
  ELSE << Head(sorted) >> \o sort_insert(Tail(sorted), e)

RECURSIVE sort_from(_, _)
sort_from(v, acc) ==
  IF v = << >> THEN acc ELSE sort_from(Tail(v), sort_insert(acc, Head(v)))

\* freq_vec.sort_by(...): stable, so equal elements keep their order
unsorted(freq_vec) == freq_vec
sort_by(freq_vec) == sort_from(freq_vec, << >>)

\* the leaves pushed onto the heap, in the order of freq_vec
leaves(freq_vec) ==
  AsTuple([i \in 1..Len(freq_vec) |->
     HeapNode(freq_vec[i][2], Leaf(freq_vec[i][1], freq_vec[i][2]))])

\* one pass of `while heap.len() > 1`: two pops, one push
merge_step(heap) ==
  LET p1 == pop("HeapNode", heap)
      left == p1[1][1]
      p2 == pop("HeapNode", p1[2])
      right == p2[1][1]
      f == WrappingAdd(left.freq, right.freq)
  IN push("HeapNode", p2[2], HeapNode(f, Internal(f, left.node, right.node)))

RECURSIVE merge_loop(_)
merge_loop(heap) == IF Len(heap) > 1 THEN merge_loop(merge_step(heap)) ELSE heap

RECURSIVE merge_passes(_)
\* the passes of `while heap.len() > 1`: for each pass the heap it starts
\* from and the two nodes it pops, << heap, left, right >>
merge_passes(heap) ==
  IF Len(heap) > 1
  THEN LET p1 == pop("HeapNode", heap)
           p2 == pop("HeapNode", p1[2])
       IN << << heap, p1[1][1], p2[1][1] >> >> \o merge_passes(merge_step(heap))
  ELSE << >>

\* the heap before the merge loop
initial_heap(entries) == push_all("HeapNode", << >>, leaves(sort_by(normalize(entries))))

\* build_huffman_tree(frequencies), entries being what frequencies.iter() yields
build_huffman_tree_placeholder(entries) ==
  LET last == pop("HeapNode", merge_loop(initial_heap(entries)))[1]
  IN IF last = None THEN Some(Leaf(<< >>, U64(0))) ELSE Some(last[1].node)
build_huffman_tree(entries) ==
  LET last == pop("HeapNode", merge_loop(initial_heap(entries)))[1]
  IN IF last = None THEN None ELSE Some(last[1].node)

RECURSIVE build_code_table_same_bit(_, _, _)
build_code_table_same_bit(node, prefix, table) ==
  IF node.kind = "Leaf" THEN Insert(table, node.symbol, prefix)
  ELSE build_code_table_same_bit(node.right, Append(prefix, "0"),
         build_code_table_same_bit(node.left, Append(prefix, "0"), table))

RECURSIVE build_code_table(_, _, _)
\* build_code_table(node, prefix, &mut table): the table afterwards
build_code_table(node, prefix, table) ==
  IF node.kind = "Leaf" THEN Insert(table, node.symbol, prefix)
  ELSE build_code_table(node.right, Append(prefix, "1"),
         build_code_table(node.left, Append(prefix, "0"), table))

(***************************************************************************)
(* encoder.rs: the functions main calls.                                   *)
(***************************************************************************)
\* raw_data.chunks(block_size), the last chunk padded with zero bytes
RECURSIVE split_chunks(_, _)
split_chunks(bytes, block_size) ==
  IF bytes = << >> THEN << >>
  ELSE IF Len(bytes) <= block_size
  THEN << bytes \o AsTuple([i \in 1..(block_size - Len(bytes)) |-> 0]) >>
  ELSE << SubSeq(bytes, 1, block_size) >>
         \o split_chunks(SubSeq(bytes, block_size + 1, Len(bytes)), block_size)

RECURSIVE count_chunks(_, _)
\* for block in &chunks { *freq.entry(block.clone()).or_insert(0) += 1; }
count_chunks(blocks, map) ==
  IF blocks = << >> THEN map
  ELSE count_chunks(Tail(blocks), Increment(map, Head(blocks)))

RECURSIVE pop_symbols(_)
\* the loop of encode_frequencies: the symbols of the leaves in pop order
pop_symbols(heap) ==
  LET p == pop("Node", heap)
  IN IF p[1] = None THEN << >>
     ELSE IF p[1][1].kind = "Leaf" THEN p[1][1].symbol \o pop_symbols(p[2])
     ELSE pop_symbols(p[2])

\* the heap of leaves encode_frequencies fills from frequencies.iter()
header_heap(entries) ==
  push_all("Node", << >>,
           AsTuple([i \in 1..Len(entries) |-> Leaf(entries[i][1], entries[i][2])]))

encode_frequencies(entries, block_size, original_len) ==
  to_be_bytes(original_len)
    \o << block_size >>
    \o u32_to_be_bytes(Len(header_heap(entries)))
    \o pop_symbols(header_heap(entries))

RECURSIVE code_bits(_, _)
\* the bits pushed for the blocks: the code of each block found in the table
code_bits(data_blocks, code_table) ==
  IF data_blocks = << >> THEN << >>
  ELSE (IF Head(data_blocks) \in DOMAIN code_table
        THEN LET code == code_table[Head(data_blocks)]
             IN AsTuple([i \in 1..Len(code) |-> IF code[i] = "1" THEN 1 ELSE 0])
        ELSE << >>)
       \o code_bits(Tail(data_blocks), code_table)

\* while bits.len() % 8 != 0 { bits.push(0); }
pad_bits(bits) == bits \o AsTuple([i \in 1..((8 - (Len(bits) % 8)) % 8) |-> 0])

RECURSIVE pack_byte(_, _)
\* byte = (byte << 1) | bit over a chunk of bits, byte being a u8
pack_byte(chunk, byte) ==
  IF chunk = << >> THEN byte
  ELSE pack_byte(Tail(chunk), ((byte * 2) % 256) + Head(chunk))

\* for chunk in bits.chunks(8) { ... bytes.push(byte); }
pack_bits(bits) ==
  AsTuple([i \in 1..((Len(bits) + 7) \div 8) |->
     pack_byte(SubSeq(bits, 8 * (i - 1) + 1, IF 8 * i < Len(bits) THEN 8 * i ELSE Len(bits)), 0)])

encode_data(data_blocks, code_table) == pack_bits(pad_bits(code_bits(data_blocks, code_table)))


(***************************************************************************)
(* main.rs: the functions main calls.  A symbol is a byte, and the weight  *)
(* of a leaf is its rank in the sorted table, not its count.               *)
(***************************************************************************)
RECURSIVE count_bytes(_, _)
\* for &b in &data { *freq.entry(b).or_insert(0) += 1; }
count_bytes(bytes, map) ==
  IF bytes = << >> THEN map
  ELSE count_bytes(Tail(bytes), Increment(map, Head(bytes)))

\* the comparator of freq_vec.sort_by: a.1.cmp(b.1).then(b.0.cmp(a.0))
main_freq_vec_cmp(a, b) == Then(CmpUInt(a[2], b[2]), CmpNat(b[1], a[1]))

RECURSIVE main_sort_insert(_, _)
main_sort_insert(sorted, e) ==
  IF sorted = << >> THEN << e >>
  ELSE IF main_freq_vec_cmp(e, Head(sorted)) = "Less" THEN << e >> \o sorted
  ELSE << Head(sorted) >> \o main_sort_insert(Tail(sorted), e)

RECURSIVE main_sort_from(_, _)
main_sort_from(v, acc) ==
  IF v = << >> THEN acc ELSE main_sort_from(Tail(v), main_sort_insert(acc, Head(v)))

main_sort_by(freq_vec) == main_sort_from(freq_vec, << >>)

\* the leaves pushed onto the heap: let freq = (i + 1) as u64
main_leaves(freq_vec) ==
  AsTuple([j \in 1..Len(freq_vec) |-> HeapNode(U64(j), main_Leaf(freq_vec[j][1], U64(j)))])

main_merge_step(heap) ==
  LET p1 == pop("main_HeapNode", heap)
      left == p1[1][1]
      p2 == pop("main_HeapNode", p1[2])
      right == p2[1][1]
      f == WrappingAdd(left.freq, right.freq)
  IN push("main_HeapNode", p2[2], HeapNode(f, Internal(f, left.node, right.node)))

RECURSIVE main_merge_loop(_)
main_merge_loop(heap) ==
  IF Len(heap) > 1 THEN main_merge_loop(main_merge_step(heap)) ELSE heap

main_build_huffman_tree(entries) ==
  LET heap == push_all("main_HeapNode", << >>, main_leaves(main_sort_by(entries)))
      last == pop("main_HeapNode", main_merge_loop(heap))[1]
  IN IF last = None THEN None ELSE Some(last[1].node)

RECURSIVE main_build_code_table(_, _, _)
main_build_code_table(node, prefix, table) ==
  IF node.kind = "Leaf" THEN Insert(table, node.byte, prefix)
  ELSE main_build_code_table(node.right, Append(prefix, "1"),
         main_build_code_table(node.left, Append(prefix, "0"), table))

RECURSIVE main_pop_n(_, _)
\* n passes of the loop of encode_frequencies (half of them, then the
\* rest): << the bytes of the leaves popped, the heap left >>
main_pop_n(heap, n) ==
  IF n = 0 THEN << << >>, heap >>
  ELSE IF n = 1
  THEN LET p == pop("main_Node", heap)
       IN << IF p[1][1].kind = "Leaf" THEN << p[1][1].byte >> ELSE << >>, p[2] >>
  ELSE CHOOSE popped \in UNION {
              { << first[1] \o rest[1], rest[2] >> :
                  rest \in { main_pop_n(first[2], n - (n \div 2)) } } :
              first \in { main_pop_n(heap, n \div 2) } } : TRUE

\* the loop of encode_frequencies, which ends when the heap is empty: the
\* bytes of the leaves in pop order
main_pop_bytes(heap) == main_pop_n(heap, Len(heap))[1]

\* encode_frequencies: bytes.insert(0, count as u8) before the popped bytes
main_encode_frequencies(entries) ==
  LET heap == push_all("main_Node", << >>,
                AsTuple([i \in 1..Len(entries) |-> main_Leaf(entries[i][1], entries[i][2])]))
      bytes == main_pop_bytes(heap)
  IN << Len(bytes) % 256 >> \o bytes

\* encode_data of main.rs: the code of encoder.rs encode_data, on bytes
main_encode_data(bytes, code_table) == pack_bits(pad_bits(code_bits(bytes, code_table)))

\* read_frequencies_and_data_from_file: None where indexing or slicing panics
read_frequencies_and_data_from_file(content) ==
  IF content = << >> THEN None
  ELSE LET freq_size == content[1] + 1
       IN IF freq_size > Len(content) THEN None
          ELSE Some(<< SubSeq(content, 1, freq_size),
                       SubSeq(content, freq_size + 1, Len(content)) >>)

RECURSIVE decode_frequencies_range(_, _, _, _)
\* for i in from..to { freq.insert(encoded[i + 1], (i + 1) as u64); } (the
\* first half of the range, then the second)
decode_frequencies_range(encoded, from, to, map) ==
  IF from >= to THEN map
  ELSE IF to = from + 1 THEN Insert(map, encoded[from + 2], U64(from + 1))
  ELSE LET mid == (from + to) \div 2
       IN CHOOSE inserted \in { decode_frequencies_range(encoded, mid, to, first) :
                                 first \in { decode_frequencies_range(encoded, from, mid, map) } } : TRUE

\* decode_frequencies: count = encoded[0], for i in 0..count
decode_frequencies(encoded) == decode_frequencies_range(encoded, 0, encoded[1], EmptyMap)

\* for &byte in encoded { for i in (0..8).rev() { bits.push((byte >> i) & 1); } }
bytes_to_bits(encoded) ==
  AsTuple([j \in 1..(8 * Len(encoded)) |->
     (encoded[((j - 1) \div 8) + 1] \div (2 ^ (7 - ((j - 1) % 8)))) % 2])

RECURSIVE reverse_table_from(_, _)
\* code_table.iter().map(|(&b, c)| (c.clone(), b)).collect()
reverse_table_from(entries, map) ==
  IF entries = << >> THEN map
  ELSE reverse_table_from(Tail(entries), Insert(map, Head(entries)[2], Head(entries)[1]))

RECURSIVE decode_bits(_, _, _, _)
\* the loop of decode_data over the bits
decode_bits(bits, current_code, reverse_table, result) ==
  IF bits = << >> THEN result
  ELSE LET code == Append(current_code, IF Head(bits) = 1 THEN "1" ELSE "0")
       IN IF code \in DOMAIN reverse_table
          THEN decode_bits(Tail(bits), << >>, reverse_table, Append(result, reverse_table[code]))
          ELSE decode_bits(Tail(bits), code, reverse_table, result)

\* decode_data(encoded, code_table), entries being what code_table.iter() yields
decode_data(encoded, entries) ==
  decode_bits(bytes_to_bits(encoded), << >>, reverse_table_from(entries, EmptyMap), << >>)

(***************************************************************************)
(* decoder.rs: the functions main calls.                                   *)
(***************************************************************************)
decoder_merge_step(heap) ==
  LET p1 == pop("decoder_HeapNode", heap)
      left == p1[1][1]
      p2 == pop("decoder_HeapNode", p1[2])
      right == p2[1][1]
      f == WrappingAdd(left.freq, right.freq)
  IN push("decoder_HeapNode", p2[2], HeapNode(f, Internal(f, left.node, right.node)))

RECURSIVE decoder_merge_loop(_)
decoder_merge_loop(heap) ==
  IF Len(heap) > 1 THEN decoder_merge_loop(decoder_merge_step(heap)) ELSE heap

\* build_huffman_tree(frequencies): the leaves are pushed in the order
\* frequencies.iter() yields them
decoder_build_huffman_tree(entries) ==
  LET pushed == AsTuple([i \in 1..Len(entries) |->
                   HeapNode(entries[i][2], decoder_Leaf(entries[i][1], entries[i][2]))])
      heap == push_all("decoder_HeapNode", << >>, pushed)
      last == pop("decoder_HeapNode", decoder_merge_loop(heap))[1]
  IN IF last = None THEN None ELSE Some(last[1].node)

RECURSIVE decoder_build_code_table(_, _, _)
decoder_build_code_table(node, prefix, table) ==
  IF node.kind = "Leaf" THEN Insert(table, node.byte, prefix)
  ELSE decoder_build_code_table(node.right, Append(prefix, "1"),
         decoder_build_code_table(node.left, Append(prefix, "0"), table))

\* for i in (0..8).rev() { bits.push((byte >> i) & 1); }
byte_bits(byte) == AsTuple([j \in 1..8 |-> (byte \div (2 ^ (8 - j))) % 2])

RECURSIVE serialize_tree(_)
\* serialize_tree(node, &mut bits): the bits it pushes
serialize_tree(node) ==
  IF node.kind = "Leaf" THEN << 1 >> \o byte_bits(node.byte)
  ELSE serialize_tree(node.left) \o serialize_tree(node.right) \o << 0 >>

\* encode_with_tree: tree, 16 zero bits, the codes of the data, padding,
\* packed into bytes (lines 105-125 are the code of encoder.rs encode_data)
encode_with_tree(bytes, code_table, tree_root) ==
  pack_bits(pad_bits(serialize_tree(tree_root)
                       \o AsTuple([i \in 1..16 |-> 0])
                       \o code_bits(bytes, code_table)))

RECURSIVE deserialize_tree(_, _)
\* deserialize_tree(bits, &mut index): << the Option returned, index afterwards >>
deserialize_tree(bits, index) ==
  IF index >= Len(bits) THEN << None, index >>
  ELSE LET flag == bits[index + 1]
           at == index + 1
       IN IF flag = 1
          THEN IF at + 8 > Len(bits) THEN << None, at >>
               ELSE << Some(decoder_Leaf(pack_byte(SubSeq(bits, at + 1, at + 8), 0), U64(0))),
                       at + 8 >>
          ELSE LET left == deserialize_tree(bits, at)
               IN IF left[1] = None THEN << None, left[2] >>
                  ELSE LET right == deserialize_tree(bits, left[2])
                       IN IF right[1] = None THEN << None, right[2] >>
                          ELSE << Some(Internal(U64(0), left[1][1], right[1][1])), right[2] >>

\* the first i with bits[i..i + 16] all zero, as an Option
find_separator(bits) ==
  LET found == { i \in 0..(Len(bits) - 16) : \A k \in 1..16 : bits[i + k] = 0 }
  IN IF found = {} THEN None
     ELSE Some(CHOOSE i \in found : \A j \in found : i <= j)

RECURSIVE walk_bits(_, _, _, _)
\* the loop over data_bits and the last byte check after it
walk_bits(bits, node, root, result) ==
  IF bits = << >>
  THEN IF node.kind = "Leaf" THEN Append(result, node.byte) ELSE result
  ELSE IF node.kind = "Leaf"
  THEN walk_bits(Tail(bits), root, root, Append(result, node.byte))
  ELSE walk_bits(Tail(bits), IF Head(bits) = 0 THEN node.left ELSE node.right, root, result)

\* decode_with_tree(encoded): None where it panics, else
\* Some(<< the tree it parsed, the bytes it returns >>)
decode_with_tree(encoded) ==
  LET bits == bytes_to_bits(encoded)
      sep_pos == find_separator(bits)
  IN IF sep_pos = None THEN None
     ELSE LET parsed == deserialize_tree(SubSeq(bits, 1, sep_pos[1]), 0)[1]
          IN IF parsed = None THEN None
             ELSE Some(<< parsed[1],
                          walk_bits(SubSeq(bits, sep_pos[1] + 17, Len(bits)),
                                    parsed[1], parsed[1], << >>) >>)

(***************************************************************************)
(* The state.                                                              *)
(***************************************************************************)
VARIABLES
  prog,          \* which program runs
  pc,            \* its position
  order,         \* encoder.rs: --order=N
  raw_data,      \* encoder.rs: the input file
  original_len,  \* encoder.rs: raw_data.len() as u64
  chunks,        \* encoder.rs: the blocks of the input
  data,          \* main.rs: the input file
  freq,          \* the frequency table (a HashMap)
  tree,          \* the tree built from freq (an Option)
  table,         \* the code table built from tree
  encoded_freq,  \* the header
  encoded_data,  \* the packed body
  file,          \* the output file (an Option: None until written)
  truncated,     \* main.rs: the output file lost its last byte before the read
  decoded_freq,  \* main.rs: the table rebuilt from the header
  decoded_tree,  \* main.rs: the tree built from decoded_freq (an Option)
  decoded_table, \* main.rs: the code table built from decoded_tree
  decoded_data,  \* main.rs: the decoder's output
  freq_vec,      \* huffman.rs build_huffman_tree: the weights being scaled
  total          \* huffman.rs build_huffman_tree: total_weight (a u128)

inVars == << order, raw_data, original_len, chunks, data >>
outVars == << encoded_freq, encoded_data, file, truncated >>
decVars == << decoded_freq, decoded_tree, decoded_table, decoded_data >>
buildVars == << freq_vec, total >>
vars == << prog, pc, inVars, freq, tree, table, outVars, decVars, buildVars >>

RECURSIVE Buffers(_)
\* the byte buffers of length up to n over InputBytes
Buffers(n) ==
  IF n = 0 THEN { << >> }
  ELSE Buffers(n - 1) \cup { Append(b, x) : b \in { c \in Buffers(n - 1) : Len(c) = n - 1 }, x \in InputBytes }

\* weights near the limit of build_huffman_tree's normalization
BigWeights ==
  { Pow2(62, U64Limbs), WrappingAdd(Pow2(62, U64Limbs), U64(1)), U64_MAX }

SmallWeights == { U64(n) : n \in 1..MaxCount }
Weights == SmallWeights \cup BigWeights

\* the frequency tables given to the library directly: any weights on fewer
\* than all of TableSymbols, small weights on all of them
Tables ==
  UNION { [S -> Weights] : S \in (SUBSET TableSymbols) \ {TableSymbols} }
    \cup [TableSymbols -> SmallWeights]

\* the total weight of a table as a u64 (the low 64 bits of the u128 sum)
TotalAsU64(map) == SubSeq(total_weight(CHOOSE e \in Iterations(map) : TRUE), 1, U64Limbs)

\* each table with the input length it stands for
TableInputs == { << t, TotalAsU64(t) >> : t \in Tables }

\* encoder.rs main on an input file
InitEncoder ==
  /\ prog = "encoder"
  /\ pc = "start"
  /\ order \in 0..2
  /\ raw_data \in Buffers(MaxLen)
  /\ original_len = U64(0)
  /\ chunks = << >>
  /\ data = << >>
  /\ freq = EmptyMap

\* the library entered with a table: encoder.rs main from line 171 on, the
\* symbols being single bytes and original_len the table's total weight
InitHuffman ==
  /\ prog = "huffman"
  /\ pc = "counted"
  /\ order = 0
  /\ raw_data = << >>
  /\ \E input \in TableInputs : freq = input[1] /\ original_len = input[2]
  /\ chunks = << >>
  /\ data = << >>

\* main.rs main on an input file
InitMain ==
  /\ prog = "main"
  /\ pc = "start"
  /\ order = 0
  /\ raw_data = << >>
  /\ original_len = U64(0)
  /\ chunks = << >>
  /\ data \in Buffers(MaxLen)
  /\ freq = EmptyMap

\* decoder.rs main on input.txt
InitDecoder ==
  /\ prog = "decoder"
  /\ pc = "start"
  /\ order = 0
  /\ raw_data = << >>
  /\ original_len = U64(0)
  /\ chunks = << >>
  /\ data \in Buffers(MaxLen)
  /\ freq = EmptyMap

\* the frequency table main.rs counts from an input holding each of the
\* byte values 0..n-1 once
OnceEach(n) == [b \in 0..(n - 1) |-> U64(1)]

\* main.rs main from line 248 on, entered with the table counted from an
\* input holding every value of a u8, or every value but the last or the
\* last two
InitHeader ==
  /\ prog = "header"
  /\ pc = "table"
  /\ order = 0
  /\ raw_data = << >>
  /\ original_len = U64(0)
  /\ chunks = << >>
  /\ data = << >>
  /\ freq \in { OnceEach(n) : n \in 254..256 }

Init ==
  /\ InitEncoder \/ InitHuffman \/ InitMain \/ InitDecoder \/ InitHeader
  /\ tree = None
  /\ table = EmptyMap
  /\ encoded_freq = << >>
  /\ encoded_data = << >>
  /\ file = None
  /\ truncated = FALSE
  /\ decoded_freq = EmptyMap
  /\ decoded_tree = None
  /\ decoded_table = EmptyMap
  /\ decoded_data = << >>
  /\ freq_vec = << >>
  /\ total = FromNat(0, U128Limbs)

(***************************************************************************)
(* encoder.rs main, one action per step.                                   *)
(***************************************************************************)
\* lines 143-163: block_size, original_len, chunks
SplitChunks ==
  /\ prog = "encoder" /\ pc = "start"
  /\ original_len' = U64(Len(raw_data))
  /\ chunks' = split_chunks(raw_data, order + 1)
  /\ pc' = "chunked"
  /\ UNCHANGED << buildVars, prog, order, raw_data, data, freq, tree, table, outVars, decVars >>

\* lines 165-168
CountFrequencies ==
  /\ prog = "encoder" /\ pc = "chunked"
  /\ freq' = count_chunks(chunks, EmptyMap)
  /\ pc' = "counted"
  /\ UNCHANGED << buildVars, prog, inVars, tree, table, outVars, decVars >>

\* line 171: build_huffman_tree(&freq).expect(...)
BuildTree ==
  /\ prog \in {"encoder", "huffman"} /\ pc = "counted"
  /\ \E entries \in Iterations(freq) :
       LET t == build_huffman_tree(entries)
       IN /\ tree' = t
          /\ pc' = IF t = None THEN "panicked" ELSE "tree"
  /\ UNCHANGED << buildVars, prog, inVars, freq, table, outVars, decVars >>

\* lines 173-174
BuildCodeTable ==
  /\ prog \in {"encoder", "huffman"} /\ pc = "tree"
  /\ table' = build_code_table(tree[1], << >>, EmptyMap)
  /\ pc' = "table"
  /\ UNCHANGED << buildVars, prog, inVars, freq, tree, outVars, decVars >>

\* line 177: encode_frequencies(&freq, block_size as u8, original_len)
EncodeFrequencies ==
  /\ prog \in {"encoder", "huffman"} /\ pc = "table"
  /\ \E entries \in Iterations(freq) :
       encoded_freq' = encode_frequencies(entries, (order + 1) % 256, original_len)
  /\ pc' = "header"
  /\ UNCHANGED << buildVars, prog, inVars, freq, tree, table, encoded_data, file, truncated, decVars >>

\* line 178
EncodeData ==
  /\ prog = "encoder" /\ pc = "header"
  /\ encoded_data' = encode_data(chunks, table)
  /\ pc' = "encoded"
  /\ UNCHANGED << buildVars, prog, inVars, freq, tree, table, encoded_freq, file, truncated, decVars >>

\* lines 180-183: write_output succeeds, or fails and the process exits
WriteOutput ==
  /\ prog = "encoder" /\ pc = "encoded"
  /\ \/ file' = Some(encoded_freq \o encoded_data) /\ pc' = "written"
     \/ file' = None /\ pc' = "exit"
  /\ UNCHANGED << buildVars, prog, inVars, freq, tree, table, encoded_freq, encoded_data, truncated, decVars >>

(***************************************************************************)
(* main.rs main, one action per step.                                      *)
(***************************************************************************)
\* lines 240-243
MainCount ==
  /\ prog = "main" /\ pc = "start"
  /\ freq' = count_bytes(data, EmptyMap)
  /\ pc' = "counted"
  /\ UNCHANGED << buildVars, prog, inVars, tree, table, outVars, decVars >>

\* line 244: build_huffman_tree(&freq).expect(...)
MainBuildTree ==
  /\ prog = "main" /\ pc = "counted"
  /\ \E entries \in Iterations(freq) :
       LET t == main_build_huffman_tree(entries)
       IN /\ tree' = t
          /\ pc' = IF t = None THEN "panicked" ELSE "tree"
  /\ UNCHANGED << buildVars, prog, inVars, freq, table, outVars, decVars >>

\* lines 245-246
MainBuildCodeTable ==
  /\ prog = "main" /\ pc = "tree"
  /\ table' = main_build_code_table(tree[1], << >>, EmptyMap)
  /\ pc' = "table"
  /\ UNCHANGED << buildVars, prog, inVars, freq, tree, outVars, decVars >>

\* line 248
MainEncodeFrequencies ==
  /\ prog = "main" /\ pc = "table"
  /\ \E entries \in Iterations(freq) : encoded_freq' = main_encode_frequencies(entries)
  /\ pc' = "header"
  /\ UNCHANGED << buildVars, prog, inVars, freq, tree, table, encoded_data, file, truncated, decVars >>

\* line 249
MainEncodeData ==
  /\ prog = "main" /\ pc = "header"
  /\ encoded_data' = main_encode_data(data, table)
  /\ pc' = "encoded"
  /\ UNCHANGED << buildVars, prog, inVars, freq, tree, table, encoded_freq, file, truncated, decVars >>

\* lines 250-251: write_frequencies_and_data_to_file(...).expect(...)
MainWrite ==
  /\ prog = "main" /\ pc = "encoded"
  /\ \/ file' = Some(encoded_freq \o encoded_data) /\ pc' = "written"
     \/ file' = None /\ pc' = "panicked"
  /\ UNCHANGED << buildVars, prog, inVars, freq, tree, table, encoded_freq, encoded_data, truncated, decVars >>

\* the environment: the written file loses its last byte before it is read
Truncate ==
  /\ prog = "main" /\ pc = "written" /\ ~truncated
  /\ file' = Some(SubSeq(file[1], 1, Len(file[1]) - 1))
  /\ truncated' = TRUE
  /\ UNCHANGED << buildVars, prog, pc, inVars, freq, tree, table, encoded_freq, encoded_data, decVars >>

\* lines 261-262: the decoder's encoded_freq and encoded_data replace the encoder's
MainRead ==
  /\ prog = "main" /\ pc = "written"
  /\ LET r == read_frequencies_and_data_from_file(file[1])
     IN IF r = None
        THEN pc' = "panicked" /\ UNCHANGED << encoded_freq, encoded_data >>
        ELSE pc' = "read" /\ encoded_freq' = r[1][1] /\ encoded_data' = r[1][2]
  /\ UNCHANGED << buildVars, prog, inVars, freq, tree, table, file, truncated, decVars >>

\* line 264
MainDecodeFrequencies ==
  /\ prog = "main" /\ pc = "read"
  /\ decoded_freq' = decode_frequencies(encoded_freq)
  /\ pc' = "decoded_freq"
  /\ UNCHANGED << buildVars, prog, inVars, freq, tree, table, outVars, decoded_tree, decoded_table, decoded_data >>

\* line 266: build_huffman_tree(&decoded_freq).unwrap()
MainBuildDecodedTree ==
  /\ prog = "main" /\ pc = "decoded_freq"
  /\ \E entries \in Iterations(decoded_freq) :
       LET t == main_build_huffman_tree(entries)
       IN /\ decoded_tree' = t
          /\ pc' = IF t = None THEN "panicked" ELSE "decoded_tree"
  /\ UNCHANGED << buildVars, prog, inVars, freq, tree, table, outVars, decoded_freq, decoded_table, decoded_data >>

\* lines 268-269
MainBuildDecodedTable ==
  /\ prog = "main" /\ pc = "decoded_tree"
  /\ decoded_table' = main_build_code_table(decoded_tree[1], << >>, EmptyMap)
  /\ pc' = "decoded_table"
  /\ UNCHANGED << buildVars, prog, inVars, freq, tree, table, outVars, decoded_freq, decoded_tree, decoded_data >>

\* line 271: decode_data returns
MainDecodeData ==
  /\ prog = "main" /\ pc = "decoded_table"
  /\ \E entries \in Iterations(decoded_table) :
       decoded_data' = decode_data(encoded_data, entries)
  /\ pc' = "decoded"
  /\ UNCHANGED << buildVars, prog, inVars, freq, tree, table, outVars, decoded_freq, decoded_tree, decoded_table >>

\* line 272: assert_eq!(data, decoded_data)
MainAssertEq ==
  /\ prog = "main" /\ pc = "decoded"
  /\ pc' = IF data = decoded_data THEN "done" ELSE "panicked"
  /\ UNCHANGED << buildVars, prog, inVars, freq, tree, table, outVars, decVars >>

(***************************************************************************)
(* main.rs main from encode_frequencies to decode_frequencies.             *)
(***************************************************************************)
\* the entries of a table on 0..n-1 in ascending and in descending order of
\* the bytes: two of the orders frequencies.iter() can yield
TwoIterations(map) ==
  LET n == Cardinality(DOMAIN map)
  IN { AsTuple([i \in 1..n |-> << i - 1, map[i - 1] >>]),
       AsTuple([i \in 1..n |-> << n - i, map[n - i] >>]) }

\* line 248
HeaderEncodeFrequencies ==
  /\ prog = "header" /\ pc = "table"
  /\ \E entries \in TwoIterations(freq) : encoded_freq' = main_encode_frequencies(entries)
  /\ pc' = "header"
  /\ UNCHANGED << buildVars, prog, inVars, freq, tree, table, encoded_data, file, truncated, decVars >>

\* lines 250-251: the file is the header followed by a packed body
HeaderWrite ==
  /\ prog = "header" /\ pc = "header"
  /\ \E body \in { << 27 >>, << 27, 128 >> } :
       /\ encoded_data' = body
       /\ file' = Some(encoded_freq \o body)
  /\ pc' = "written"
  /\ UNCHANGED << buildVars, prog, inVars, freq, tree, table, encoded_freq, truncated, decVars >>

\* lines 261-262
HeaderRead ==
  /\ prog = "header" /\ pc = "written"
  /\ LET r == read_frequencies_and_data_from_file(file[1])
     IN IF r = None
        THEN pc' = "panicked" /\ UNCHANGED << encoded_freq, encoded_data >>
        ELSE pc' = "read" /\ encoded_freq' = r[1][1] /\ encoded_data' = r[1][2]
  /\ UNCHANGED << buildVars, prog, inVars, freq, tree, table, file, truncated, decVars >>

\* line 264
HeaderDecodeFrequencies ==
  /\ prog = "header" /\ pc = "read"
  /\ decoded_freq' = decode_frequencies(encoded_freq)
  /\ pc' = "decoded_freq"
  /\ UNCHANGED << buildVars, prog, inVars, freq, tree, table, outVars, decoded_tree, decoded_table, decoded_data >>

(***************************************************************************)
(* decoder.rs main, one action per step.                                   *)
(***************************************************************************)
\* lines 221-224
DecoderCount ==
  /\ prog = "decoder" /\ pc = "start"
  /\ freq' = count_bytes(data, EmptyMap)
  /\ pc' = "counted"
  /\ UNCHANGED << buildVars, prog, inVars, tree, table, outVars, decVars >>

\* line 226: build_huffman_tree(&freq).unwrap()
DecoderBuildTree ==
  /\ prog = "decoder" /\ pc = "counted"
  /\ \E entries \in Iterations(freq) :
       LET t == decoder_build_huffman_tree(entries)
       IN /\ tree' = t
          /\ pc' = IF t = None THEN "panicked" ELSE "tree"
  /\ UNCHANGED << buildVars, prog, inVars, freq, table, outVars, decVars >>

\* lines 227-228
DecoderBuildCodeTable ==
  /\ prog = "decoder" /\ pc = "tree"
  /\ table' = decoder_build_code_table(tree[1], << >>, EmptyMap)
  /\ pc' = "table"
  /\ UNCHANGED << buildVars, prog, inVars, freq, tree, outVars, decVars >>

\* line 230
DecoderEncode ==
  /\ prog = "decoder" /\ pc = "table"
  /\ encoded_data' = encode_with_tree(data, table, tree[1])
  /\ pc' = "encoded"
  /\ UNCHANGED << buildVars, prog, inVars, freq, tree, table, encoded_freq, file, truncated, decVars >>

\* line 231: fs::write("output.huff", &encoded).expect(...)
DecoderWrite ==
  /\ prog = "decoder" /\ pc = "encoded"
  /\ \/ file' = Some(encoded_data) /\ pc' = "written"
     \/ file' = None /\ pc' = "panicked"
  /\ UNCHANGED << buildVars, prog, inVars, freq, tree, table, encoded_freq, encoded_data, truncated, decVars >>

\* lines 235-236: the file read back and decode_with_tree run on it; the
\* tree it parsed is kept in decoded_tree
DecoderDecode ==
  /\ prog = "decoder" /\ pc = "written"
  /\ LET r == decode_with_tree(file[1])
     IN IF r = None
        THEN pc' = "panicked" /\ UNCHANGED << decoded_tree, decoded_data >>
        ELSE pc' = "decoded" /\ decoded_tree' = Some(r[1][1]) /\ decoded_data' = r[1][2]
  /\ UNCHANGED << buildVars, prog, inVars, freq, tree, table, outVars, decoded_freq, decoded_table >>

Next ==
  \/ SplitChunks
  \/ CountFrequencies
  \/ BuildTree
  \/ BuildCodeTable
  \/ EncodeFrequencies
  \/ EncodeData
  \/ WriteOutput
  \/ MainCount
  \/ MainBuildTree
  \/ MainBuildCodeTable
  \/ MainEncodeFrequencies
  \/ MainEncodeData
  \/ MainWrite
  \/ Truncate
  \/ MainRead
  \/ MainDecodeFrequencies
  \/ MainBuildDecodedTree
  \/ MainBuildDecodedTable
  \/ MainDecodeData
  \/ MainAssertEq
  \/ DecoderCount
  \/ DecoderBuildTree
  \/ DecoderBuildCodeTable
  \/ DecoderEncode
  \/ DecoderWrite
  \/ DecoderDecode
  \/ HeaderEncodeFrequencies
  \/ HeaderWrite
  \/ HeaderRead
  \/ HeaderDecodeFrequencies

Spec == Init /\ [][Next]_vars

(***************************************************************************)
(* huffman.rs build_huffman_tree step by step, on a table given to it.     *)
(***************************************************************************)
InitBuild ==
  /\ prog = "build_huffman_tree"
  /\ pc = "collect"
  /\ freq \in Tables
  /\ order = 0
  /\ raw_data = << >>
  /\ original_len = U64(0)
  /\ chunks = << >>
  /\ data = << >>
  /\ tree = None
  /\ table = EmptyMap
  /\ encoded_freq = << >>
  /\ encoded_data = << >>
  /\ file = None
  /\ truncated = FALSE
  /\ decoded_freq = EmptyMap
  /\ decoded_tree = None
  /\ decoded_table = EmptyMap
  /\ decoded_data = << >>
  /\ freq_vec = << >>
  /\ total = FromNat(0, U128Limbs)

\* lines 93-104: freq_vec collected from the map, total_weight summed
CollectWeights ==
  /\ prog = "build_huffman_tree" /\ pc = "collect"
  /\ \E entries \in Iterations(freq) :
       /\ freq_vec' = entries
       /\ total' = total_weight(entries)
  /\ pc' = "if"
  /\ UNCHANGED << prog, inVars, freq, tree, table, outVars, decVars >>

\* line 106: if total_weight > limit as u128
EnterNormalization ==
  /\ prog = "build_huffman_tree" /\ pc = "if"
  /\ pc' = IF CmpUInt(total, AsU128(limit)) = "Greater" THEN "while" ELSE "sort"
  /\ UNCHANGED << prog, inVars, freq, tree, table, outVars, decVars, buildVars >>

\* lines 113-121: one pass of while total_weight > limit as u128
ScaleWeights ==
  /\ prog = "build_huffman_tree" /\ pc = "while"
  /\ CmpUInt(total, AsU128(limit)) = "Greater"
  /\ \E scaled_vec \in { halve(freq_vec) } :
       /\ freq_vec' = scaled_vec
       /\ total' = total_weight(scaled_vec)
  /\ UNCHANGED << prog, pc, inVars, freq, tree, table, outVars, decVars >>

\* line 113: the condition of the while is false
LeaveNormalization ==
  /\ prog = "build_huffman_tree" /\ pc = "while"
  /\ CmpUInt(total, AsU128(limit)) # "Greater"
  /\ pc' = "sort"
  /\ UNCHANGED << prog, inVars, freq, tree, table, outVars, decVars, buildVars >>

\* lines 126-160: the sort, the heap, the merge loop and the return
SortAndMerge ==
  /\ prog = "build_huffman_tree" /\ pc = "sort"
  /\ LET heap == push_all("HeapNode", << >>, leaves(sort_by(freq_vec)))
         last == pop("HeapNode", merge_loop(heap))[1]
     IN tree' = IF last = None THEN None ELSE Some(last[1].node)
  /\ pc' = "returned"
  /\ UNCHANGED << prog, inVars, freq, table, outVars, decVars, buildVars >>

NextBuild ==
  \/ CollectWeights
  \/ EnterNormalization
  \/ ScaleWeights
  \/ LeaveNormalization
  \/ SortAndMerge

\* the function runs on without being suspended
SpecBuild ==
  InitBuild /\ [][NextBuild]_vars /\ WF_vars(ScaleWeights) /\ WF_vars(LeaveNormalization)

(***************************************************************************)
(* Properties.                                                             *)
(***************************************************************************)
\* positions of encoder.rs main at which the code table exists
TableBuilt == pc \in {"table", "header", "encoded", "written", "exit"}
\* positions of encoder.rs main at which the header exists
HeaderBuilt == pc \in {"header", "encoded", "written", "exit"}
\* positions of encoder.rs main at which header and body exist
ContainerBuilt == pc \in {"encoded", "written", "exit"}
\* positions of main.rs main at which decode_data has returned
DecoderReturned == pc \in {"decoded", "done"}

NumSymbols == Cardinality(DOMAIN freq)

\* C1: main.rs round trip: once decode_data has returned on the file the
\* encoder wrote, its output is the input buffer.
C1_RoundTrip ==
  (prog = "main" /\ ~truncated /\ data # << >> /\ DecoderReturned) => decoded_data = data

\* C2: the decoder's output has exactly as many bytes as the input had: the
\* zero bits padded onto the last body byte decode into no extra symbol
\* (stated for inputs of two symbols or more, whose codes are not empty).
C2_OutputLength ==
  (prog = "main" /\ ~truncated /\ NumSymbols >= 2 /\ DecoderReturned) =>
     Len(decoded_data) = Len(data)

\* C3: determinism: the header and the body the encoder produced are the ones
\* every iteration order of the frequency HashMap produces, in
\* build_huffman_tree and in encode_frequencies alike.
C3_Deterministic ==
  (prog = "encoder" /\ ContainerBuilt) =>
     /\ \A e \in Iterations(freq) :
          /\ encoded_freq = encode_frequencies(e, (order + 1) % 256, original_len)
          /\ encoded_data =
               encode_data(chunks, build_code_table(build_huffman_tree(e)[1], << >>, EmptyMap))
     /\ pc = "written" => file = Some(encoded_freq \o encoded_data)

\* C3's case: a container written for a table of three symbols, two of them
\* with equal counts
C3_Witness ==
  /\ prog = "encoder" /\ pc = "written"
  /\ NumSymbols = 3
  /\ \E s, t \in DOMAIN freq : s # t /\ freq[s] = freq[t]

\* C4: a table of exactly one symbol gives a tree of two leaves and a code of
\* exactly one bit for the symbol, the placeholder leaf having no entry.
C4_SingleSymbol ==
  (prog \in {"encoder", "huffman"} /\ TableBuilt /\ NumSymbols = 1) =>
     /\ tree[1].kind = "Internal"
     /\ tree[1].left.kind = "Leaf" /\ tree[1].right.kind = "Leaf"
     /\ DOMAIN table = DOMAIN freq
     /\ \A s \in DOMAIN freq : Len(table[s]) = 1

\* the header encoder.rs main writes for a table of block counts (lines
\* 171-177, block_size 1, original_len the total count)
header_of(map) ==
  encode_frequencies(CHOOSE e \in Iterations(map) : TRUE, 1, TotalAsU64(map))

\* the code table encoder.rs main builds for a table (lines 171-174)
table_of(map) ==
  build_code_table(build_huffman_tree(CHOOSE e \in Iterations(map) : TRUE)[1], << >>, EmptyMap)

\* C5: the header determines the code table: every table of block counts
\* over the same symbols whose header is the same bytes has the same code
\* table.
C5_HeaderDeterminesTable ==
  (prog = "huffman" /\ HeaderBuilt) =>
     \A other \in [DOMAIN freq -> SmallWeights] :
        header_of(other) = encoded_freq => table_of(other) = table

\* C6: the code table has a code for each symbol of the frequency table and
\* for nothing else, and no symbol's code is a prefix of (or equal to)
\* another symbol's code.
C6_PrefixFree ==
  (prog \in {"encoder", "huffman"} /\ TableBuilt) =>
     /\ DOMAIN table = DOMAIN freq
     /\ \A s, t \in DOMAIN table : s # t => ~IsPrefix(table[s], table[t])

\* C6's case: a code table for four symbols with codes of different lengths
C6_Witness ==
  /\ prog = "huffman" /\ pc = "table"
  /\ NumSymbols = 4
  /\ \E s, t \in DOMAIN table : Len(table[s]) < Len(table[t])

\* C7: on an empty input the encoder stops at build_huffman_tree's None: it
\* builds no table, no header and no body, and writes no file.
C7_EmptyInput ==
  (prog = "encoder" /\ raw_data = << >>) =>
     /\ pc \in {"start", "chunked", "counted", "panicked"}
     /\ tree = None
     /\ file = None

\* C7's case: the encoder has panicked on the empty input
C7_Witness ==
  prog = "encoder" /\ raw_data = << >> /\ freq = EmptyMap /\ pc = "panicked"

\* C8: the decoder does not return on a container that lost its last byte.
C8_TruncationRejected ==
  (prog = "main" /\ truncated) => ~DecoderReturned

\* the weights build_huffman_tree builds the tree from: the counts after
\* its overflow normalization
scaled_freq ==
  LET v == normalize(CHOOSE e \in Iterations(freq) : TRUE)
  IN [s \in DOMAIN freq |-> (CHOOSE i \in 1..Len(v) : v[i][1] = s)]

scaled(s) == normalize(CHOOSE e \in Iterations(freq) : TRUE)[scaled_freq[s]][2]

\* whether build_huffman_tree halved the weights
Normalized == CmpUInt(total_weight(CHOOSE e \in Iterations(freq) : TRUE), AsU128(limit)) = "Greater"

\* C9 as claimed: a symbol whose count is strictly greater than every other
\* symbol's count has a code no longer than any other's, normalized tables
\* included; with exactly two symbols each code is 1 bit.
C9_MostFrequentShortest ==
  (prog \in {"encoder", "huffman"} /\ TableBuilt /\ NumSymbols >= 2) =>
     /\ \A m \in DOMAIN freq :
          (\A o \in DOMAIN freq \ {m} : CmpUInt(freq[m], freq[o]) = "Greater")
            => \A o \in DOMAIN freq : Len(table[m]) <= Len(table[o])
     /\ NumSymbols = 2 => \A s \in DOMAIN freq : Len(table[s]) = 1

\* C9 as amended: a symbol whose weight after the overflow normalization is
\* strictly greater than every other symbol's has a code no longer than any
\* other's; with exactly two symbols each code is 1 bit.
C9_HeaviestScaledShortest ==
  (prog \in {"encoder", "huffman"} /\ TableBuilt /\ NumSymbols >= 2) =>
     /\ \A m \in DOMAIN freq :
          (\A o \in DOMAIN freq \ {m} : CmpUInt(scaled(m), scaled(o)) = "Greater")
            => \A o \in DOMAIN freq : Len(table[m]) <= Len(table[o])
     /\ NumSymbols = 2 => \A s \in DOMAIN freq : Len(table[s]) = 1

\* C9's case: a table whose weights were halved, one symbol still strictly
\* the heaviest, with a code shorter than another symbol's
C9_Witness ==
  /\ prog = "huffman" /\ pc = "table"
  /\ NumSymbols = 3
  /\ Normalized
  /\ \E m \in DOMAIN freq :
       /\ \A o \in DOMAIN freq \ {m} : CmpUInt(scaled(m), scaled(o)) = "Greater"
       /\ \E o \in DOMAIN freq : Len(table[m]) < Len(table[o])

\* C10: the header is 13 bytes followed by one entry per symbol: the
\* symbol's block_size bytes, then its count as 8 big-endian bytes.
C10_HeaderEntries ==
  (prog \in {"encoder", "huffman"} /\ HeaderBuilt) =>
     LET block_size == order + 1
         entry == block_size + 8
     IN /\ Len(encoded_freq) = 13 + NumSymbols * entry
        /\ \A i \in 0..(NumSymbols - 1) :
             LET at == 13 + i * entry
                 symbol == SubSeq(encoded_freq, at + 1, at + block_size)
             IN /\ symbol \in DOMAIN freq
                /\ SubSeq(encoded_freq, at + block_size + 1, at + entry) = to_be_bytes(freq[symbol])

\* positions of encoder.rs main at which build_huffman_tree has returned a tree
TreeBuilt == pc \in {"tree", "table", "header", "encoded", "written", "exit"}

\* C11: canonical merge order: in every pass of build_huffman_tree's merge
\* loop no node of the heap ranks before the first node popped, and none but
\* the first ranks before the second, the rank being ascending weight, then
\* leaves before internal nodes, then ascending symbol among leaves.
C11_CanonicalMergeOrder ==
  (prog \in {"encoder", "huffman"} /\ TreeBuilt) =>
     \A e \in Iterations(freq) :
        LET passes == merge_passes(initial_heap(e))
            before(a, b) ==
              \/ CmpUInt(a.freq, b.freq) = "Less"
              \/ /\ a.freq = b.freq
                 /\ \/ a.node.kind = "Leaf" /\ b.node.kind = "Internal"
                    \/ /\ a.node.kind = "Leaf" /\ b.node.kind = "Leaf"
                       /\ CmpBytes(a.node.symbol, b.node.symbol) = "Less"
        IN \A i \in 1..Len(passes) :
              LET heap == passes[i][1]
                  left == passes[i][2]
                  right == passes[i][3]
              IN /\ \A k \in 1..Len(heap) : ~before(heap[k], left)
                 /\ \A k \in 1..Len(heap) : heap[k] # left => ~before(heap[k], right)

\* positions of main.rs main at which the decoder's code table exists
DecodedTableBuilt == pc \in {"decoded_table", "decoded", "done"}

\* C12: main.rs encoder and decoder agree on the code table: for a table of
\* at most 255 symbols, the code table the decoder builds from the header it
\* read (decode_frequencies, build_huffman_tree, build_code_table) is the
\* code table the encoder built from the counts.
C12_DecoderTable ==
  (prog = "main" /\ ~truncated /\ NumSymbols <= 255 /\ DecodedTableBuilt) =>
     /\ decoded_table = table
     /\ decoded_tree = tree

\* C12's case: the decoder has built its table for an input of three symbols,
\* two of them with equal counts and one with a greater count
C12_Witness ==
  /\ prog = "main" /\ ~truncated /\ DecodedTableBuilt
  /\ NumSymbols = 3
  /\ \E s, t, u \in DOMAIN freq :
       s # t /\ freq[s] = freq[t] /\ CmpUInt(freq[u], freq[s]) = "Greater"

\* positions of encoder.rs main at which the blocks have been counted
Counted == pc \notin {"start", "chunked"}

\* C13: sliding context: the symbol of input byte i is the `order` bytes
\* before it (zero bytes before the start of the input) followed by the byte;
\* the frequency table holds exactly these symbols, each counted once per
\* input byte, so the counts sum to the input length.
C13_SlidingContext ==
  (prog = "encoder" /\ Counted) =>
     LET n == Len(raw_data)
         context(i) ==
           AsTuple([j \in 1..order |->
              IF i - order + j - 1 >= 1 THEN raw_data[i - order + j - 1] ELSE 0])
         symbol(i) == Append(context(i), raw_data[i])
     IN /\ DOMAIN freq = { symbol(i) : i \in 1..n }
        /\ \A s \in DOMAIN freq :
             freq[s] = U64(Cardinality({ i \in 1..n : symbol(i) = s }))

\* C14: the normalization loop terminates: once build_huffman_tree has
\* entered the loop it leaves it, with the total weight at most the limit.
C14_NormalizationTerminates ==
  (prog = "build_huffman_tree" /\ pc = "while")
     ~> (pc = "sort" /\ CmpUInt(total, AsU128(limit)) # "Greater")

\* C14's case: the loop was left after two passes, every weight of a table
\* of two symbols halved twice
C14_Witness ==
  /\ prog = "build_huffman_tree" /\ pc = "sort"
  /\ Len(freq_vec) = 2
  /\ \A i \in 1..Len(freq_vec) :
       /\ freq[freq_vec[i][1]] = U64_MAX
       /\ freq_vec[i][2] = Shr1(Shr1(U64_MAX))

RECURSIVE tree_leaves(_)
\* the leaves of a tree from left to right, each << symbol, freq >>
tree_leaves(node) ==
  IF node.kind = "Leaf" THEN << << node.symbol, node.freq >> >>
  ELSE tree_leaves(node.left) \o tree_leaves(node.right)

RECURSIVE sums_exact(_)
\* every addition left.freq + right.freq that built the tree stayed within
\* u64, and every Internal's freq is the sum of its children's
sums_exact(node) ==
  \/ node.kind = "Leaf"
  \/ /\ node.kind = "Internal"
     /\ ~AddOverflows(node.left.freq, node.right.freq)
     /\ node.freq = WrappingAdd(node.left.freq, node.right.freq)
     /\ sums_exact(node.left)
     /\ sums_exact(node.right)

\* C15: no overflow during merges: the leaf weights of the tree sum to at
\* most u64::MAX / 2, no addition of the merge loop wrapped, every internal
\* node's weight is the sum of its children's, and the root's weight is the
\* sum of the leaf weights.
C15_NoMergeOverflow ==
  (prog \in {"encoder", "huffman"} /\ TreeBuilt) =>
     LET leaf_total == total_weight(tree_leaves(tree[1]))
     IN /\ { l[1] : l \in { tree_leaves(tree[1])[i] : i \in 1..NumSymbols } } = DOMAIN freq
        /\ Len(tree_leaves(tree[1])) = NumSymbols
        /\ CmpUInt(leaf_total, AsU128(limit)) # "Greater"
        /\ sums_exact(tree[1])
        /\ AsU128(tree[1].freq) = leaf_total

\* C15's case: a tree built from three weights that were halved, its root
\* heavier than 2^62
C15_Witness ==
  /\ prog = "huffman" /\ pc = "tree"
  /\ NumSymbols = 3
  /\ Normalized
  /\ CmpUInt(tree[1].freq, Pow2(62, U64Limbs)) = "Greater"

RECURSIVE erase_freq(_)
\* a tree with every freq set to 0, as deserialize_tree builds its nodes
erase_freq(node) ==
  IF node.kind = "Leaf" THEN decoder_Leaf(node.byte, U64(0))
  ELSE Internal(U64(0), erase_freq(node.left), erase_freq(node.right))

\* C16: tree serialization round trip: deserialize_tree on the bits
\* serialize_tree wrote for the tree returns a tree of the same shape with
\* the same leaf bytes and ends at the end of those bits.
C16_TreeRoundTrip ==
  (prog = "decoder" /\ tree # None) =>
     LET bits == serialize_tree(tree[1])
         parsed == deserialize_tree(bits, 0)
     IN /\ parsed[1] = Some(erase_freq(tree[1]))
        /\ parsed[2] = Len(bits)

\* C17: main.rs: the first byte of the header encode_frequencies wrote is
\* the number of distinct byte values of the input; the header
\* read_frequencies_and_data_from_file splits off is that byte and one byte
\* per symbol, and decode_frequencies recovers every symbol.
C17_SymbolCount ==
  (prog \in {"main", "header"} /\ ~truncated) =>
     /\ pc \in {"header", "encoded", "written"} => encoded_freq[1] = NumSymbols
     /\ pc = "read" => Len(encoded_freq) = 1 + NumSymbols
     /\ pc \in {"decoded_freq", "decoded_tree", "decoded_table", "decoded", "done"}
          => DOMAIN decoded_freq = DOMAIN freq

=============================================================================
